---- MODULE Spec2Model ----
(***************************************************************************)
(* Model of the Mela -> Paprika converter (src/convert.py, src/app.py).    *)
(*                                                                         *)
(* Strings are sequences of one-character strings.  A file name is such a  *)
(* sequence; the two extension words are kept as one atom each after the   *)
(* "." character.  None, an absent dictionary key and a JSON number are    *)
(* one-element sentinels that are no string of the alphabet.               *)
(***************************************************************************)
EXTENDS Integers, Sequences, FiniteSets, TLC

\* ------------------------------------------------------------------ bounds
MaxLen == 3        \* longest string fed to the pure functions
MaxFiles == 3      \* most files in a scanned directory (one invocation)
MaxFilesConc == 1  \* most files per directory when two invocations run

\* ------------------------------------------------------------- characters
None == <<"<None>">>
Absent == <<"<absent>">>
NumV == <<"<int>">>

LowerSeq == <<"a","b","c","d","e","f","g","h","i","j","k","l","m",
              "n","o","p","q","r","s","t","u","v","w","x","y","z">>
UpperSeq == <<"A","B","C","D","E","F","G","H","I","J","K","L","M",
              "N","O","P","Q","R","S","T","U","V","W","X","Y","Z">>
DigitSeq == <<"0","1","2","3","4","5","6","7","8","9">>

Range(s) == {s[i] : i \in DOMAIN s}
IsLower(c) == c \in Range(LowerSeq)
IsUpper(c) == c \in Range(UpperSeq)
IsDigit(c) == c \in Range(DigitSeq)
IsAlnum(c) == IsLower(c) \/ IsUpper(c) \/ IsDigit(c)
IsWord(c) == IsAlnum(c) \/ c = "_"
IsSpace(c) == c \in {" ", "\t", "\n"}
IsCased(c) == IsLower(c) \/ IsUpper(c)

IndexIn(s, c) == CHOOSE i \in DOMAIN s : s[i] = c
ToUpper(c) == IF IsLower(c) THEN UpperSeq[IndexIn(LowerSeq, c)] ELSE c
ToLower(c) == IF IsUpper(c) THEN LowerSeq[IndexIn(UpperSeq, c)] ELSE c

\* ------------------------------------------------------ str methods used
RECURSIVE lstrip(_)
lstrip(s) == IF s # <<>> /\ IsSpace(Head(s)) THEN lstrip(Tail(s)) ELSE s

RECURSIVE rstrip(_)
rstrip(s) ==
    IF s # <<>> /\ IsSpace(s[Len(s)]) THEN rstrip(SubSeq(s, 1, Len(s) - 1)) ELSE s

strip(s) == lstrip(rstrip(s))

RECURSIVE rstrip_chars(_, _)
rstrip_chars(s, c) ==
    IF s # <<>> /\ s[Len(s)] = c THEN rstrip_chars(SubSeq(s, 1, Len(s) - 1), c) ELSE s

\* s.split(sep)[-1]: what follows the last sep, the whole of s when there is none
last_segment(s, sep) ==
    LET at == {i \in DOMAIN s : s[i] = sep}
        last == IF at = {} THEN 0 ELSE CHOOSE i \in at : \A j \in at : j <= i
    IN  SubSeq(s, last + 1, Len(s))

replace(s, old, new) == [i \in DOMAIN s |-> IF s[i] = old THEN new ELSE s[i]]

\* str.title(): a cased character is upper-cased after an uncased one (or at
\* the start) and lower-cased after a cased one
title(s) ==
    [i \in DOMAIN s |->
        IF i > 1 /\ IsCased(s[i - 1]) THEN ToLower(s[i]) ELSE ToUpper(s[i])]

\* ------------------------------------------------------------ Field Mapper
Get(v, default) == IF v = Absent THEN default ELSE v
Falsy(v) == v = None \/ v = <<>>

clean_text(text) == IF Falsy(text) THEN <<>> ELSE strip(text)

Untitled == <<"U","n","t","i","t","l","e","d"," ","R","e","c","i","p","e">>

link_name(link) ==
    title(replace(replace(last_segment(rstrip_chars(link, "/"), "/"), "-", " "), "_", " "))

recipe_name(mela_data) ==
    LET name == clean_text(Get(mela_data.title, <<>>)) IN
    IF name # <<>> THEN name
    ELSE LET link == Get(mela_data.link, <<>>) IN
         IF ~Falsy(link) THEN link_name(link) ELSE Untitled

\* a truthy non-string title or link has no strip()/rstrip(): AttributeError
MapRaises(mela_data) ==
    Get(mela_data.title, <<>>) = NumV \/ Get(mela_data.link, <<>>) = NumV

mela_to_paprika(mela_data, uid) ==
    [uid |-> uid, name |-> recipe_name(mela_data)]

\* ---------------------------------------------------------- Record Encoder
Placeholder == <<"r","e","c","i","p","e">>
ExtRecipe == <<".", "paprikarecipe">>
ExtBundle == <<".", "paprikarecipes">>

KeepChar(c) == IsWord(c) \/ IsSpace(c) \/ c = "-"
re_sub(name) == SelectSeq(name, KeepChar)

safe_name(name) ==
    LET s == replace(strip(re_sub(name)), " ", "_") IN
    IF s = <<>> THEN Placeholder ELSE s

paprika_filename(name) == safe_name(name) \o ExtRecipe

\* --------------------------------------------------------- Bundle Assembler
\* PurePath.stem: the name without its last suffix; a leading or trailing
\* dot starts no suffix
Stem(name) ==
    LET at == {i \in DOMAIN name : name[i] = "."}
        last == IF at = {} THEN 0 ELSE CHOOSE i \in at : \A j \in at : j <= i
    IN  IF 1 < last /\ last < Len(name) THEN SubSeq(name, 1, last - 1) ELSE name

\* zero-padded decimal of n in w digits (strftime %Y %m %d %H %M %S)
RECURSIVE Pad(_, _)
Pad(n, w) == IF w = 0 THEN <<>> ELSE Pad(n \div 10, w - 1) \o <<DigitSeq[(n % 10) + 1]>>

strftime_bundle(now) ==
    Pad(now.Y, 4) \o Pad(now.M, 2) \o Pad(now.D, 2) \o <<"_">>
        \o Pad(now.h, 2) \o Pad(now.m, 2) \o Pad(now.s, 2)

Clock == { [Y |-> 2024, M |-> 1, D |-> 5, h |-> 9, m |-> 3, s |-> 7],
           [Y |-> 2025, M |-> 12, D |-> 31, h |-> 23, m |-> 59, s |-> 58] }

\* (mutant: the sole-record name is taken whenever there is a first record)
bundle_base_firstRecord(paprika_files, bundle_name, now) ==
    IF Falsy(bundle_name)
    THEN IF Len(paprika_files) >= 1 THEN Stem(paprika_files[1].name)
         ELSE strftime_bundle(now)
    ELSE bundle_name

bundle_base(paprika_files, bundle_name, now) ==
    IF Falsy(bundle_name)
    THEN IF Len(paprika_files) = 1 THEN Stem(paprika_files[1].name)
         ELSE strftime_bundle(now)
    ELSE bundle_name

bundle_filename(paprika_files, bundle_name, now) ==
    bundle_base(paprika_files, bundle_name, now) \o ExtBundle

\* zf.write(paprika_file, arcname=paprika_file.name), one at a time: the first
\* missing file raises and the entries written before it stay in the archive
SamePath(f, path) == f.dir = path.dir /\ f.name = path.name
Exists(files, path) == \E f \in files : SamePath(f, path)
ReadFile(files, path) == (CHOOSE f \in files : SamePath(f, path)).content

RECURSIVE zip_write(_, _)
zip_write(paths, files) ==
    IF paths = <<>> \/ ~Exists(files, Head(paths)) THEN <<>>
    ELSE <<[arcname |-> Head(paths).name, content |-> ReadFile(files, Head(paths))]>>
             \o zip_write(Tail(paths), files)

\* io_ok: whether the archive can be opened for writing in output_dir
create_paprika_bundle(paprika_files, files, out_dir, bundle_name, now, io_ok) ==
    LET entries == zip_write(paprika_files, files) IN
    [ path    |-> [dir |-> out_dir, name |-> bundle_filename(paprika_files, bundle_name, now)],
      written |-> io_ok,
      entries |-> entries,
      raised  |-> ~io_ok \/ Len(entries) < Len(paprika_files) ]

\* ------------------------------------------------------------- file system
Procs == {1, 2}
OutDirs == {"out1", "out2"}
temp_dir(d) == <<d, ".temp">>

\* (mutant: exclusive creation, a file already there is kept)
WriteFile_keepFirst(files, path, content) ==
    IF \E f \in files : f.dir = path.dir /\ f.name = path.name THEN files
    ELSE files \cup {[dir |-> path.dir, name |-> path.name, content |-> content]}

\* gzip.open(output_path, 'wt'): creates the file or truncates the one there
WriteFile(files, path, content) ==
    {f \in files : ~SamePath(f, path)}
        \cup {[dir |-> path.dir, name |-> path.name, content |-> content]}

WriteBundle(files, path, entries) ==
    {f \in files : ~SamePath(f, path)}
        \cup {[dir |-> path.dir, name |-> path.name, entries |-> entries]}

create_paprika_file(recipe, dir) == [dir |-> dir, name |-> paprika_filename(recipe.name)]

\* ------------------------------------------------------------------ inputs
Doc(t, l) == [title |-> t, link |-> l]
JsonFile(d) == [json_ok |-> TRUE, data |-> d]
Malformed == [json_ok |-> FALSE, data |-> Doc(Absent, Absent)]

FileSet == { Malformed,
             JsonFile(Doc(<<"a">>, Absent)),
             JsonFile(Doc(<<"b">>, Absent)),
             JsonFile(Doc(<<"a", "!">>, Absent)),
             JsonFile(Doc(NumV, Absent)) }

SeqsUpTo(S, n) == UNION {[1..k -> S] : k \in 0..n}

Inputs(n) ==
    {[kind |-> k, files |-> <<>>] : k \in {"wrongext", "missing"}}
        \cup {[kind |-> "file", files |-> <<f>>] : f \in FileSet}
        \cup {[kind |-> "dir", files |-> s] : s \in SeqsUpTo(FileSet, n)}

NoInput == [kind |-> "missing", files |-> <<>>]

\* json.load succeeds or read_mela_file catches the error and returns None
\* (mutant: no except clause, the parse error leaves read_mela_file)
read_mela_file_noExcept(file) ==
    [raised |-> ~file.json_ok, isNone |-> FALSE, data |-> file.data]

\* (raised: an exception leaving read_mela_file; both except clauses return None)
read_mela_file(file) == [raised |-> FALSE, isNone |-> ~file.json_ok, data |-> file.data]

\* (mutant: the check for an empty list is missing)
NothingConverted_never(files) == FALSE

\* if not paprika_files: return None
NothingConverted(files) == files = <<>>

NoPath == [dir |-> <<>>, name |-> <<>>]
\* how the call ends: a returned value, or an exception (at: the step it left)
Pending == [kind |-> "pending", path |-> NoPath, at |-> "-"]
ReturnNone == [kind |-> "none", path |-> NoPath, at |-> "-"]
Raised(at) == [kind |-> "raised", path |-> NoPath, at |-> at]
ReturnPath(path) == [kind |-> "path", path |-> path, at |-> "-"]

StaleBundle(d) == [dir |-> <<d>>, name |-> <<"a">> \o ExtBundle, entries |-> <<>>]

VARIABLES active, input, output_dir, pc, mela_files, idx, paprika_files, targets,
          result, dirs, tempFiles, outFiles, dirs0, outFiles0, nextUid,
          fnOp, fnArg, fnRes

vars == <<active, input, output_dir, pc, mela_files, idx, paprika_files, targets,
          result, dirs, tempFiles, outFiles, dirs0, outFiles0, nextUid,
          fnOp, fnArg, fnRes>>

fsVars == <<dirs, tempFiles, outFiles>>
fnVars == <<fnOp, fnArg, fnRes>>
callVars == <<active, input, output_dir, dirs0, outFiles0>>

NoArg == [title |-> Absent, link |-> Absent, name |-> <<>>, files |-> <<>>,
          bundle_name |-> None, now |-> CHOOSE t \in Clock : t.Y = 2024]
NoRes == [done |-> FALSE, name |-> <<>>, path |-> NoPath, entries |-> <<>>]

InitLocals ==
    /\ pc = [p \in Procs |-> "start"]
    /\ mela_files = [p \in Procs |-> <<>>]
    /\ idx = [p \in Procs |-> 1]
    /\ paprika_files = [p \in Procs |-> <<>>]
    /\ targets = [p \in Procs |-> <<>>]
    /\ result = [p \in Procs |-> Pending]
    /\ tempFiles = {}
    /\ nextUid = 1

\* one invocation, in an output directory that may already hold a .temp
\* directory and a bundle
Init ==
    /\ active = {1}
    /\ \E i \in Inputs(MaxFiles) : input = [p \in Procs |-> IF p = 1 THEN i ELSE NoInput]
    /\ output_dir = [p \in Procs |-> "out1"]
    /\ dirs \in {{}, {temp_dir("out1")}}
    /\ outFiles \in {{}, {StaleBundle("out1")}}
    /\ dirs0 = dirs
    /\ outFiles0 = outFiles
    /\ InitLocals
    /\ fnOp = "idle" /\ fnArg = NoArg /\ fnRes = NoRes

\* two invocations running at once, in the same or in different directories
InitConc ==
    /\ active = Procs
    /\ input \in [Procs -> Inputs(MaxFilesConc)]
    /\ output_dir \in [Procs -> OutDirs]
    /\ dirs = {}
    /\ outFiles = {}
    /\ dirs0 = dirs
    /\ outFiles0 = outFiles
    /\ InitLocals
    /\ fnOp = "idle" /\ fnArg = NoArg /\ fnRes = NoRes

\* -------------------------------------------------- convert_mela_to_paprika
\* output_dir.mkdir(parents=True, exist_ok=True); temp_dir.mkdir(exist_ok=True)
Mkdir(p) ==
    /\ p \in active
    /\ pc[p] = "start"
    /\ dirs' = dirs \cup {temp_dir(output_dir[p])}
    /\ pc' = [pc EXCEPT ![p] = "discover"]
    /\ UNCHANGED <<mela_files, idx, paprika_files, targets, result, tempFiles,
                   outFiles, nextUid>>
    /\ UNCHANGED callVars /\ UNCHANGED fnVars

\* is_file / suffix / is_dir / glob: the files to convert, or a return of None
Discover(p) ==
    /\ pc[p] = "discover"
    /\ LET found == input[p].kind = "file"
                       \/ (input[p].kind = "dir" /\ input[p].files # <<>>) IN
       /\ mela_files' = [mela_files EXCEPT ![p] = IF found THEN input[p].files ELSE <<>>]
       /\ result' = [result EXCEPT ![p] = IF found THEN Pending ELSE ReturnNone]
       /\ pc' = [pc EXCEPT ![p] = IF found THEN "loop" ELSE "cleanup"]
    /\ UNCHANGED <<idx, paprika_files, targets, nextUid>>
    /\ UNCHANGED fsVars /\ UNCHANGED callVars /\ UNCHANGED fnVars

\* one pass of the for loop: read, map, encode.  write_ok: whether the
\* environment lets gzip.open write the file (it cannot when the directory
\* is gone)
Step(p) ==
    /\ pc[p] = "loop"
    /\ idx[p] <= Len(mela_files[p])
    /\ \E write_ok \in BOOLEAN :
         LET mela_data == read_mela_file(mela_files[p][idx[p]])
             recipe == mela_to_paprika(mela_data.data, nextUid)
             path == create_paprika_file(recipe, temp_dir(output_dir[p]))
             can_write == write_ok /\ temp_dir(output_dir[p]) \in dirs
         IN  IF mela_data.raised
             THEN /\ result' = [result EXCEPT ![p] = Raised("read")]
                  /\ pc' = [pc EXCEPT ![p] = "cleanup"]
                  /\ UNCHANGED <<idx, paprika_files, targets, tempFiles, nextUid>>
             ELSE IF mela_data.isNone
             THEN /\ idx' = [idx EXCEPT ![p] = idx[p] + 1]
                  /\ UNCHANGED <<pc, paprika_files, targets, result, tempFiles, nextUid>>
             ELSE IF MapRaises(mela_data.data)
             THEN /\ result' = [result EXCEPT ![p] = Raised("map")]
                  /\ pc' = [pc EXCEPT ![p] = "cleanup"]
                  /\ UNCHANGED <<idx, paprika_files, targets, tempFiles, nextUid>>
             ELSE IF ~can_write
             THEN /\ result' = [result EXCEPT ![p] = Raised("encode")]
                  /\ pc' = [pc EXCEPT ![p] = "cleanup"]
                  /\ nextUid' = nextUid + 1
                  /\ UNCHANGED <<idx, paprika_files, targets, tempFiles>>
             ELSE /\ tempFiles' = WriteFile(tempFiles, path, recipe)
                  /\ paprika_files' = [paprika_files EXCEPT ![p] = Append(@, path)]
                  /\ targets' = [targets EXCEPT ![p] = Append(@, recipe)]
                  /\ idx' = [idx EXCEPT ![p] = idx[p] + 1]
                  /\ nextUid' = nextUid + 1
                  /\ UNCHANGED <<pc, result>>
    /\ UNCHANGED <<mela_files, dirs, outFiles>>
    /\ UNCHANGED callVars /\ UNCHANGED fnVars

\* after the loop: nothing converted returns None, otherwise on to the bundle
Finish(p) ==
    /\ pc[p] = "loop"
    /\ idx[p] > Len(mela_files[p])
    /\ IF NothingConverted(paprika_files[p])
       THEN /\ result' = [result EXCEPT ![p] = ReturnNone]
            /\ pc' = [pc EXCEPT ![p] = "cleanup"]
       ELSE /\ pc' = [pc EXCEPT ![p] = "assemble"]
            /\ UNCHANGED result
    /\ UNCHANGED <<mela_files, idx, paprika_files, targets, nextUid>>
    /\ UNCHANGED fsVars /\ UNCHANGED callVars /\ UNCHANGED fnVars

\* bundle_path = create_paprika_bundle(paprika_files, output_dir)
Assemble(p) ==
    /\ pc[p] = "assemble"
    /\ \E now \in Clock, io_ok \in BOOLEAN :
         LET b == create_paprika_bundle(paprika_files[p], tempFiles,
                                        <<output_dir[p]>>, None, now, io_ok)
         IN  /\ outFiles' = IF b.written THEN WriteBundle(outFiles, b.path, b.entries)
                            ELSE outFiles
             /\ result' = [result EXCEPT ![p] = IF b.raised THEN Raised("bundle")
                                                ELSE ReturnPath(b.path)]
    /\ pc' = [pc EXCEPT ![p] = "cleanup"]
    /\ UNCHANGED <<mela_files, idx, paprika_files, targets, nextUid, dirs, tempFiles>>
    /\ UNCHANGED callVars /\ UNCHANGED fnVars

\* (mutant: the removal follows the bundle instead of standing in a finally)
Cleanup_afterBundleOnly(p) ==
    /\ pc[p] = "cleanup"
    /\ IF result[p].kind = "path"
       THEN /\ dirs' = dirs \ {temp_dir(output_dir[p])}
            /\ tempFiles' = {f \in tempFiles : f.dir # temp_dir(output_dir[p])}
       ELSE UNCHANGED <<dirs, tempFiles>>
    /\ pc' = [pc EXCEPT ![p] = "done"]
    /\ UNCHANGED <<mela_files, idx, paprika_files, targets, result, outFiles, nextUid>>
    /\ UNCHANGED <<active, input, output_dir, dirs0, outFiles0>>
    /\ UNCHANGED <<fnOp, fnArg, fnRes>>

\* finally: if temp_dir.exists(): shutil.rmtree(temp_dir)
Cleanup(p) ==
    /\ pc[p] = "cleanup"
    /\ dirs' = dirs \ {temp_dir(output_dir[p])}
    /\ tempFiles' = {f \in tempFiles : f.dir # temp_dir(output_dir[p])}
    /\ pc' = [pc EXCEPT ![p] = "done"]
    /\ UNCHANGED <<mela_files, idx, paprika_files, targets, result, outFiles, nextUid>>
    /\ UNCHANGED callVars /\ UNCHANGED fnVars

Next ==
    \/ \E p \in Procs : Mkdir(p)
    \/ \E p \in Procs : Discover(p)
    \/ \E p \in Procs : Step(p)
    \/ \E p \in Procs : Finish(p)
    \/ \E p \in Procs : Assemble(p)
    \/ \E p \in Procs : Cleanup(p)

Spec == Init /\ [][Next]_vars
SpecConc == InitConc /\ [][Next]_vars

\* ------------------------------------------ the pure functions, called alone
Strings(alphabet, n) == SeqsUpTo(alphabet, n)

TitleSet == {Absent, None, <<>>, <<" ">>, <<"a">>, <<" ", "a", " ">>}
LinkSet == {Absent, None} \cup Strings({"a", "B", "/", "-", " "}, MaxLen)
NameSet == Strings({"a", "1", "_", "-", " ", "\t", "!"}, MaxLen)
EncodedNames == { paprika_filename(<<"a">>), paprika_filename(<<"b", " ", "c">>),
                  <<"a", ".", "b">> \o ExtRecipe }
BundleNames == {None, <<>>, <<"m", "y">>}

Arg(op) ==
    IF op = "map"
    THEN {[NoArg EXCEPT !.title = t, !.link = l] : t \in TitleSet, l \in LinkSet}
    ELSE IF op = "encode"
    THEN {[NoArg EXCEPT !.name = n] : n \in NameSet}
    ELSE {[NoArg EXCEPT !.files = f, !.bundle_name = b, !.now = t] :
             f \in SeqsUpTo(EncodedNames, MaxLen), b \in BundleNames, t \in Clock}

\* every encoded file the bundle call is given is in the temporary directory
InitFn ==
    /\ fnOp \in {"map", "encode", "bundle"}
    /\ fnArg \in Arg(fnOp)
    /\ fnRes = NoRes
    /\ active = {}
    /\ input = [p \in Procs |-> NoInput]
    /\ output_dir = [p \in Procs |-> "out1"]
    /\ dirs = {temp_dir("out1")}
    /\ outFiles = {}
    /\ dirs0 = dirs
    /\ outFiles0 = outFiles
    /\ pc = [p \in Procs |-> "start"]
    /\ mela_files = [p \in Procs |-> <<>>]
    /\ idx = [p \in Procs |-> 1]
    /\ paprika_files = [p \in Procs |-> <<>>]
    /\ targets = [p \in Procs |-> <<>>]
    /\ result = [p \in Procs |-> Pending]
    /\ tempFiles = {[dir |-> temp_dir("out1"), name |-> n,
                     content |-> [uid |-> 1, name |-> Stem(n)]] : n \in EncodedNames}
    /\ nextUid = 1

orchVars == <<active, input, output_dir, pc, mela_files, idx, paprika_files, targets,
              result, dirs, tempFiles, dirs0, outFiles0, nextUid>>

\* mela_to_paprika(mela_data)
CallMap ==
    /\ fnOp = "map" /\ ~fnRes.done
    /\ fnRes' = [NoRes EXCEPT !.done = TRUE,
                   !.name = mela_to_paprika(Doc(fnArg.title, fnArg.link), nextUid).name]
    /\ UNCHANGED <<fnOp, fnArg, outFiles>> /\ UNCHANGED orchVars

\* create_paprika_file(recipe, output_dir)
CallEncode ==
    /\ fnOp = "encode" /\ ~fnRes.done
    /\ fnRes' = [NoRes EXCEPT !.done = TRUE, !.name = fnArg.name,
                   !.path = create_paprika_file([uid |-> nextUid, name |-> fnArg.name],
                                                temp_dir("out1"))]
    /\ UNCHANGED <<fnOp, fnArg, outFiles>> /\ UNCHANGED orchVars

\* create_paprika_bundle(paprika_files, output_dir, bundle_name)
CallBundle ==
    /\ fnOp = "bundle" /\ ~fnRes.done
    /\ LET paths == [i \in DOMAIN fnArg.files |->
                        [dir |-> temp_dir("out1"), name |-> fnArg.files[i]]]
           b == create_paprika_bundle(paths, tempFiles, <<"out1">>,
                                      fnArg.bundle_name, fnArg.now, TRUE)
       IN  /\ outFiles' = WriteBundle(outFiles, b.path, b.entries)
           /\ fnRes' = [NoRes EXCEPT !.done = TRUE, !.path = b.path, !.entries = b.entries]
    /\ UNCHANGED <<fnOp, fnArg>> /\ UNCHANGED orchVars

NextFn == CallMap \/ CallEncode \/ CallBundle

SpecFn == InitFn /\ [][NextFn]_vars

\* ================================================================== claims
Done(p) == p \in active /\ pc[p] = "done"
Files(p) == input[p].files
ParsedIdx(p) == {i \in DOMAIN Files(p) : Files(p)[i].json_ok}
EncodedName(file) == paprika_filename(recipe_name(file.data))
DistinctNames(p) ==
    \A i, j \in ParsedIdx(p) : i # j => EncodedName(Files(p)[i]) # EncodedName(Files(p)[j])
BundleAt(path) == CHOOSE f \in outFiles : SamePath(f, path)
InTemp(p) == {f \in tempFiles : f.dir = temp_dir(output_dir[p])}
\* the last record of the batch that was encoded under this file name
LastNamed(p, fname) ==
    LET at == {i \in DOMAIN targets[p] : paprika_filename(targets[p][i].name) = fname}
    IN  targets[p][CHOOSE i \in at : \A j \in at : j <= i]

\* C1: once an invocation has handed control back (a returned bundle, a
\* returned None or an exception), its temporary working area does not exist
\* and holds no file.
C1_TempRemovedOnReturn ==
    \A p \in Procs : Done(p) =>
        /\ temp_dir(output_dir[p]) \notin dirs
        /\ InTemp(p) = {}

\* an invocation that created its temporary area, encoded a record into it
\* and then left by an exception
C1_Witness ==
    /\ Done(1) /\ dirs0 = {}
    /\ result[1].kind = "raised" /\ result[1].at \in {"encode", "bundle"}
    /\ targets[1] # <<>>

\* C2: a directory conversion that meets no mapping, encoding or archive
\* error, in which some file parses and the parsed files have pairwise
\* distinct encoded names, returns a bundle holding exactly one record per
\* parsed file and none for the others.
C2_ParseFailuresSkipped ==
    \A p \in Procs :
        ( /\ Done(p) /\ input[p].kind = "dir"
          /\ result[p].at \notin {"map", "encode", "bundle"}
          /\ ParsedIdx(p) # {} /\ DistinctNames(p) )
        => /\ result[p].kind = "path"
           /\ Exists(outFiles, result[p].path)
           /\ LET e == BundleAt(result[p].path).entries IN
                /\ Len(e) = Cardinality(ParsedIdx(p))
                /\ \A i \in ParsedIdx(p) : \E k \in DOMAIN e :
                      /\ e[k].arcname = EncodedName(Files(p)[i])
                      /\ e[k].content.name = recipe_name(Files(p)[i].data)

\* two files that parse and one that does not, converted to a bundle
C2_Witness ==
    /\ Done(1) /\ input[1].kind = "dir" /\ result[1].kind = "path"
    /\ Cardinality(ParsedIdx(1)) = 2 /\ Len(Files(1)) = 3
    /\ Len(BundleAt(result[1].path).entries) = 2

\* C3: when no record can reach assembly (wrong extension, missing path,
\* no matching file, or no file that parses) the bundle files of the output
\* directory stay what they were before the call, and the call returns None.
NoRecordCase(p) ==
    \/ input[p].kind \in {"wrongext", "missing"}
    \/ input[p].kind = "dir" /\ Files(p) = <<>>
    \/ input[p].kind \in {"file", "dir"} /\ ParsedIdx(p) = {}

C3_NoRecordNoBundle ==
    \A p \in active : NoRecordCase(p) =>
        /\ outFiles = outFiles0
        /\ pc[p] = "done" => result[p] = ReturnNone

\* a directory whose files all fail to parse, beside a bundle already there
C3_Witness ==
    /\ Done(1) /\ input[1].kind = "dir" /\ Len(Files(1)) >= 2 /\ ParsedIdx(1) = {}
    /\ result[1] = ReturnNone /\ outFiles0 # {}

\* C4: the Target Record's name is never empty.
C4_NameNonEmpty ==
    (fnOp = "map" /\ fnRes.done) => fnRes.name # <<>>

\* C5: an invocation's encoded files stay in its temporary area, with the
\* content that invocation wrote, until it has assembled its bundle, and the
\* bundle it returns holds its own records only.
OwnUids(p) == {targets[p][i].uid : i \in DOMAIN targets[p]}

C5_Isolated ==
    \A p \in Procs :
        /\ pc[p] \in {"loop", "assemble"} =>
              \A i \in DOMAIN paprika_files[p] :
                  /\ Exists(tempFiles, paprika_files[p][i])
                  /\ ReadFile(tempFiles, paprika_files[p][i]).uid \in OwnUids(p)
        /\ (pc[p] \in {"cleanup", "done"} /\ result[p].kind = "path"
                /\ Exists(outFiles, result[p].path)) =>
              \A k \in DOMAIN BundleAt(result[p].path).entries :
                  BundleAt(result[p].path).entries[k].content.uid \in OwnUids(p)

\* C6: an error raised while mapping or encoding one record does not reach
\* the caller, and every discovered file is still processed.
C6_RecordErrorsAbsorbed ==
    \A p \in Procs : (Done(p) /\ mela_files[p] # <<>>) =>
        /\ result[p].at \notin {"map", "encode"}
        /\ idx[p] = Len(mela_files[p]) + 1

\* C7: the encoded file name is the sanitized name as specified (characters
\* outside alphanumerics, underscore, whitespace and hyphen removed; trimmed;
\* each whitespace run one underscore; "recipe" when empty) plus the
\* extension, and holds alphanumerics, underscores and hyphens only.
RECURSIVE CollapseRuns(_)
CollapseRuns(s) ==
    IF s = <<>> THEN <<>>
    ELSE IF IsSpace(Head(s)) THEN <<"_">> \o CollapseRuns(lstrip(s))
    ELSE <<Head(s)>> \o CollapseRuns(Tail(s))

SpecifiedSanitized(name) ==
    LET s == CollapseRuns(strip(SelectSeq(name, KeepChar))) IN
    IF s = <<>> THEN Placeholder ELSE s

C7_SanitizedAsSpecified ==
    (fnOp = "encode" /\ fnRes.done) =>
        /\ fnRes.path.name = SpecifiedSanitized(fnArg.name) \o ExtRecipe
        /\ \A i \in 1..(Len(fnRes.path.name) - Len(ExtRecipe)) :
              IsAlnum(fnRes.path.name[i]) \/ fnRes.path.name[i] \in {"_", "-"}

\* C8: without a bundle name the bundle is named after the sole encoded
\* record, or by a YYYYMMDD_HHMMSS timestamp of the clock when there are two
\* or more; a non-empty bundle name is used as given; the bundle is written
\* in the output directory under <base>.paprikarecipes and holds each
\* encoded file under its own file name, in order.
DigitVal(c) == (CHOOSE i \in DOMAIN DigitSeq : DigitSeq[i] = c) - 1
RECURSIVE Decimal(_)
Decimal(s) == IF s = <<>> THEN 0 ELSE 10 * Decimal(SubSeq(s, 1, Len(s) - 1)) + DigitVal(s[Len(s)])

IsTimestampOf(s, now) ==
    /\ Len(s) = 15
    /\ s[9] = "_"
    /\ \A i \in (1..15) \ {9} : IsDigit(s[i])
    /\ Decimal(SubSeq(s, 1, 4)) = now.Y /\ Decimal(SubSeq(s, 5, 6)) = now.M
    /\ Decimal(SubSeq(s, 7, 8)) = now.D /\ Decimal(SubSeq(s, 10, 11)) = now.h
    /\ Decimal(SubSeq(s, 12, 13)) = now.m /\ Decimal(SubSeq(s, 14, 15)) = now.s

C8_BundleNaming ==
    (fnOp = "bundle" /\ fnRes.done) =>
        LET name == fnRes.path.name
            base == SubSeq(name, 1, Len(name) - Len(ExtBundle))
            n == Len(fnArg.files)
        IN  /\ fnRes.path.dir = <<"out1">>
            /\ name = base \o ExtBundle
            /\ (fnArg.bundle_name = None /\ n = 1) => base \o ExtRecipe = fnArg.files[1]
            /\ (fnArg.bundle_name = None /\ n >= 2) => IsTimestampOf(base, fnArg.now)
            /\ ~Falsy(fnArg.bundle_name) => base = fnArg.bundle_name
            /\ Exists(outFiles, fnRes.path)
            /\ Len(BundleAt(fnRes.path).entries) = n
            /\ \A i \in 1..n : BundleAt(fnRes.path).entries[i].arcname = fnArg.files[i]

\* several encoded records bundled without a bundle name
C8_Witness ==
    /\ fnOp = "bundle" /\ fnRes.done
    /\ fnArg.bundle_name = None /\ Len(fnArg.files) >= 2
    /\ fnArg.files[1] # fnArg.files[2]

\* C9: at assembly the temporary area holds exactly one file per encoded
\* name and it is the last record processed under that name; every entry of
\* the returned bundle is such a last record, so an earlier record of the
\* same name is nowhere in the bundle.
C9_LastWriterWins ==
    \A p \in active :
        /\ pc[p] = "assemble" =>
              \A i \in DOMAIN targets[p] :
                  LET fname == paprika_filename(targets[p][i].name) IN
                  /\ Cardinality({f \in InTemp(p) : f.name = fname}) = 1
                  /\ \A f \in InTemp(p) : f.name = fname => f.content = LastNamed(p, fname)
        /\ (pc[p] = "done" /\ result[p].kind = "path") =>
              LET e == BundleAt(result[p].path).entries IN
              /\ Len(e) = Len(targets[p])
              /\ \A k \in DOMAIN e : e[k].content = LastNamed(p, e[k].arcname)

\* two records of one batch encoded under the same name, and bundled
C9_Witness ==
    /\ Done(1) /\ result[1].kind = "path"
    /\ \E i, j \in DOMAIN targets[1] :
          /\ i < j
          /\ targets[1][i].name # targets[1][j].name
          /\ paprika_filename(targets[1][i].name) = paprika_filename(targets[1][j].name)

\* C10: from the start of the call until assembly nothing in the output
\* directory is created, changed or removed, and all the call changes in
\* it is the one bundle file.
OutDirState(ds, bundles, d) ==
    [temp |-> temp_dir(d) \in ds, bundles |-> {f \in bundles : f.dir = <<d>>}]

C10_OnlyAssemblerWrites ==
    \A p \in active :
        /\ pc[p] \in {"discover", "loop", "assemble"} =>
              OutDirState(dirs, outFiles, output_dir[p])
                  = OutDirState(dirs0, outFiles0, output_dir[p])
        /\ pc[p] = "done" =>
              /\ (temp_dir(output_dir[p]) \in dirs) = (temp_dir(output_dir[p]) \in dirs0)
              /\ \A f \in (outFiles \ outFiles0) \cup (outFiles0 \ outFiles) :
                    result[p].kind = "path" /\ SamePath(f, result[p].path)

====
